---- MODULE Spec2Model ----
(***************************************************************************)
(* Model of the typing test of ttyper (src/src/test/mod.rs): the Test      *)
(* state (words, current_word, complete) and its only mutator handle_key.  *)
(* Strings are sequences of characters (one-character strings, and Wide    *)
(* for a character of two UTF-8 bytes), so that String::len, which counts  *)
(* bytes, and chars().nth, which counts characters, stay distinct.         *)
(* current_word is the 0-based usize index of the source                   *)
(* (words[current_word] of the source is words[current_word + 1] here).    *)
(* TestEvent.time (Instant::now()) and Test.image_path are never read by   *)
(* handle_key and are left out.                                            *)
(*                                                                         *)
(* SpecSession adds the session of src/src/main.rs: ChatGPT::gen_contents, *)
(* Test::new and the event loop of main, with the provider's answers as    *)
(* nondeterministic choices.  Terminal set-up and rendering are left out.  *)
(***************************************************************************)
EXTENDS Integers, Sequences, FiniteSets, TLC

VARIABLES words, current_word, complete, fed, hist

\* the session of main: where main is (pc), the State enum (state, results),
\* ChatGPT::subsequent_prompts, the words gen_contents returned (section),
\* and a record of the provider calls made (calls), of the last event read
\* (last) and of the number of events read (nread)
VARIABLES pc, state, results, subsequent_prompts, section, calls, last, nread

testvars == <<words, current_word, complete, fed, hist>>

sessionvars == <<pc, state, results, subsequent_prompts, section, calls, last, nread>>

vars == <<testvars, sessionvars>>

-----------------------------------------------------------------------------
(* Bounds of the model. *)

\* most words of a Test
MaxWords == 2
\* most key events fed to handle_key in a behaviour of Spec
MaxKeys == 3
\* most arbitrary key events after an exactly typed prefix in SpecRoundTrip
MaxExtra == 1
\* most text requests of a session in SpecSession
MaxParts == 2
\* most events read by the loop of main in SpecSession
MaxEvents == 4

-----------------------------------------------------------------------------
(* Key events: crossterm KeyEvent { code, modifiers }.  code is "Char"     *)
(* (with the character in ch), "Enter", "Backspace" or "Esc" (a code that  *)
(* no arm of handle_key names); ctrl is modifiers.contains(CONTROL).       *)

Char(c) == [code |-> "Char", ch |-> c, ctrl |-> FALSE]
Ctrl(c) == [code |-> "Char", ch |-> c, ctrl |-> TRUE]
Named(code) == [code |-> code, ch |-> "", ctrl |-> FALSE]

Space == Char(" ")
Enter == Named("Enter")
Backspace == Named("Backspace")
Esc == Named("Esc")
CtrlH == Ctrl("h")

\* Option<T>: Some(x) is <<x>>, None is <<>>
Some(x) == <<x>>
None == <<>>

-----------------------------------------------------------------------------
(* Pure helpers of the source. *)

\* str::starts_with
starts_with(text, prefix) ==
    /\ Len(prefix) <= Len(text)
    /\ SubSeq(text, 1, Len(prefix)) = prefix

\* a character that takes two bytes in UTF-8, such as U+00E9
Wide == "e'"

\* char::len_utf8
len_utf8(c) == IF c = Wide THEN 2 ELSE 1

\* String::len: the length in bytes
RECURSIVE len(_)
len(s) == IF s = <<>> THEN 0 ELSE len_utf8(Head(s)) + len(Tail(s))

\* text.chars().nth(n), n counted from 0
nth(text, n) == IF n < Len(text) THEN Some(text[n + 1]) ELSE None

\* String::pop
pop(s) == SubSeq(s, 1, Len(s) - 1)

\* impl From<String> for TestWord
TestWordFrom(string) == [text |-> string, progress |-> <<>>, events |-> <<>>]

\* Test::new, the Ok arm: words.into_iter().map(TestWord::from).collect()
TestNew(ws) ==
    [words |-> [i \in 1..Len(ws) |-> TestWordFrom(ws[i])],
     current_word |-> 0,
     complete |-> FALSE]

\* word.events.push(TestEvent { time, correct, key }) on words[i] (1-based)
push_event(t, i, key, correct) ==
    [t EXCEPT !.words[i].events = Append(@, [key |-> key, correct |-> correct])]

\* last_word wrapping round to the last word instead of staying at 0
last_word_Wrap(t) ==
    IF t.current_word # 0
    THEN [t EXCEPT !.current_word = @ - 1]
    ELSE [t EXCEPT !.current_word = Len(t.words) - 1]

\* fn last_word
last_word(t) ==
    IF t.current_word # 0
    THEN [t EXCEPT !.current_word = @ - 1]
    ELSE t

\* next_word comparing against words.len() instead of words.len() - 1
next_word_OffByOne(t) ==
    IF t.current_word = Len(t.words)
    THEN [t EXCEPT !.complete = TRUE, !.current_word = 0]
    ELSE [t EXCEPT !.current_word = @ + 1]

\* fn next_word
next_word(t) ==
    IF t.current_word = Len(t.words) - 1
    THEN [t EXCEPT !.complete = TRUE, !.current_word = 0]
    ELSE [t EXCEPT !.current_word = @ + 1]

-----------------------------------------------------------------------------
(* The arms of handle_key's match on key.code. *)

\* the Space/Enter arm recording the event without calling next_word
SpaceEnterArm_NoAdvance(t, key) ==
    LET i == t.current_word + 1
        word == t.words[i]
    IN  IF nth(word.text, len(word.progress)) = Some(" ")
        THEN push_event([t EXCEPT !.words[i].progress = Append(@, " ")],
                        i, key, Some(TRUE))
        ELSE IF word.progress # <<>> \/ word.text = <<>>
        THEN push_event(t, i, key, Some(word.text = word.progress))
        ELSE t

\* the Space/Enter arm advancing only from a correctly typed word
SpaceEnterArm_AdvanceIfCorrect(t, key) ==
    LET i == t.current_word + 1
        word == t.words[i]
        logged == push_event(t, i, key, Some(word.text = word.progress))
    IN  IF nth(word.text, len(word.progress)) = Some(" ")
        THEN push_event([t EXCEPT !.words[i].progress = Append(@, " ")],
                        i, key, Some(TRUE))
        ELSE IF word.progress # <<>> \/ word.text = <<>>
        THEN IF word.text = word.progress THEN next_word(logged) ELSE logged
        ELSE t

\* the Space/Enter arm without the test that the progress is not empty
SpaceEnterArm_NoEmptyCheck(t, key) ==
    LET i == t.current_word + 1
        word == t.words[i]
    IN  IF nth(word.text, len(word.progress)) = Some(" ")
        THEN push_event([t EXCEPT !.words[i].progress = Append(@, " ")],
                        i, key, Some(TRUE))
        ELSE next_word(push_event(t, i, key, Some(word.text = word.progress)))

\* KeyCode::Char(' ') | KeyCode::Enter
SpaceEnterArm(t, key) ==
    LET i == t.current_word + 1
        word == t.words[i]
    IN  IF nth(word.text, len(word.progress)) = Some(" ")
        THEN push_event([t EXCEPT !.words[i].progress = Append(@, " ")],
                        i, key, Some(TRUE))
        ELSE IF word.progress # <<>> \/ word.text = <<>>
        THEN next_word(push_event(t, i, key, Some(word.text = word.progress)))
        ELSE t

\* the Backspace arm popping without recording an event
BackspaceArm_NoEvent(t, key) ==
    LET i == t.current_word + 1
        word == t.words[i]
    IN  IF word.progress = <<>>
        THEN last_word(t)
        ELSE [t EXCEPT !.words[i].progress = pop(@)]

\* the Backspace arm popping before it judges the progress
BackspaceArm_PopFirst(t, key) ==
    LET i == t.current_word + 1
        word == t.words[i]
    IN  IF word.progress = <<>>
        THEN last_word(t)
        ELSE LET popped == [t EXCEPT !.words[i].progress = pop(@)]
             IN  push_event(popped, i, key,
                            Some(~starts_with(word.text, popped.words[i].progress)))

\* KeyCode::Backspace
BackspaceArm(t, key) ==
    LET i == t.current_word + 1
        word == t.words[i]
    IN  IF word.progress = <<>>
        THEN last_word(t)
        ELSE LET logged == push_event(t, i, key,
                                      Some(~starts_with(word.text, word.progress)))
             IN  [logged EXCEPT !.words[i].progress = pop(@)]

\* the clear-word arm recording its event before the move to the previous word
ClearWordArm_LogBeforeMove(t, key) ==
    LET logged == push_event(t, t.current_word + 1, key, None)
        moved == IF t.words[t.current_word + 1].progress = <<>>
                 THEN last_word(logged)
                 ELSE logged
    IN  [moved EXCEPT !.words[moved.current_word + 1].progress = <<>>]

\* the clear-word arm without the move to the previous word
ClearWordArm_Stay(t, key) ==
    LET i == t.current_word + 1
        logged == push_event(t, i, key, None)
    IN  [logged EXCEPT !.words[i].progress = <<>>]

\* KeyCode::Char('h') if key.modifiers.contains(KeyModifiers::CONTROL)
ClearWordArm(t, key) ==
    LET moved == IF t.words[t.current_word + 1].progress = <<>>
                 THEN last_word(t)
                 ELSE t
        i == moved.current_word + 1
        logged == push_event(moved, i, key, None)
    IN  [logged EXCEPT !.words[i].progress = <<>>]

\* the character arm completing without the reset of current_word
CharArm_NoReset(t, key) ==
    LET i == t.current_word + 1
        pushed == [t EXCEPT !.words[i].progress = Append(@, key.ch)]
        word == pushed.words[i]
        logged == push_event(pushed, i, key,
                             Some(starts_with(word.text, word.progress)))
    IN  IF word.progress = word.text /\ t.current_word = Len(t.words) - 1
        THEN [logged EXCEPT !.complete = TRUE]
        ELSE logged

\* the character arm judging the progress before the append
CharArm_JudgeBefore(t, key) ==
    LET i == t.current_word + 1
        before == t.words[i]
        pushed == [t EXCEPT !.words[i].progress = Append(@, key.ch)]
        word == pushed.words[i]
        logged == push_event(pushed, i, key,
                             Some(starts_with(before.text, before.progress)))
    IN  IF word.progress = word.text /\ t.current_word = Len(t.words) - 1
        THEN [logged EXCEPT !.complete = TRUE, !.current_word = 0]
        ELSE logged

\* the character arm assigning the completion test to complete
CharArm_AssignComplete(t, key) ==
    LET i == t.current_word + 1
        pushed == [t EXCEPT !.words[i].progress = Append(@, key.ch)]
        word == pushed.words[i]
        logged == push_event(pushed, i, key,
                             Some(starts_with(word.text, word.progress)))
        done == word.progress = word.text /\ t.current_word = Len(t.words) - 1
    IN  [logged EXCEPT !.complete = done,
                       !.current_word = IF done THEN 0 ELSE @]

\* KeyCode::Char(c)
CharArm(t, key) ==
    LET i == t.current_word + 1
        pushed == [t EXCEPT !.words[i].progress = Append(@, key.ch)]
        word == pushed.words[i]
        logged == push_event(pushed, i, key,
                             Some(starts_with(word.text, word.progress)))
    IN  IF word.progress = word.text /\ t.current_word = Len(t.words) - 1
        THEN [logged EXCEPT !.complete = TRUE, !.current_word = 0]
        ELSE logged

\* handle_key with the wildcard on the Backspace arm
handle_key_WildBackspace(t, key) ==
    IF (key.code = "Char" /\ key.ch = " ") \/ key.code = "Enter"
    THEN SpaceEnterArm(t, key)
    ELSE IF key.code = "Char" /\ key.ch = "h" /\ key.ctrl
    THEN ClearWordArm(t, key)
    ELSE IF key.code = "Char"
    THEN CharArm(t, key)
    ELSE BackspaceArm(t, key)

\* pub fn handle_key: the arms in the order of the match
handle_key(t, key) ==
    IF (key.code = "Char" /\ key.ch = " ") \/ key.code = "Enter"
    THEN SpaceEnterArm(t, key)
    ELSE IF key.code = "Backspace"
    THEN BackspaceArm(t, key)
    ELSE IF key.code = "Char" /\ key.ch = "h" /\ key.ctrl
    THEN ClearWordArm(t, key)
    ELSE IF key.code = "Char"
    THEN CharArm(t, key)
    ELSE t

-----------------------------------------------------------------------------
(* State machine. *)

\* the Test the variables hold
test == [words |-> words, current_word |-> current_word, complete |-> complete]

\* target texts the word lists of Spec are drawn from: the empty word, a
\* one-letter word, a word that starts with a space and a word with a space
\* after a two-byte character
Dictionary ==
    { <<>>, <<"a">>, <<" ", "t">>, <<Wide, " ">> }

Cat == <<"c", "a", "t">>
Dog == <<"d", "o", "g">>

\* non-empty word lists over a set of texts
WordLists(texts) ==
    UNION { [1..n -> texts] : n \in 1..MaxWords }

\* key events of Spec
Keys ==
    { Char("c"), Char("a"), Char("t"), Char("x"), Char("h"), Char(Wide),
      Space, Enter, Backspace, CtrlH, Esc }

\* no Results value, no event read yet
NoResults == [built |-> FALSE, from |-> TestNew(<<>>)]
NoEvent == [key |-> Named("None"), state |-> "None"]

\* a Test on its own, outside main: the session variables stay as they are
\* here
Detached ==
    /\ pc = "detached"
    /\ state = "Test"
    /\ results = NoResults
    /\ subsequent_prompts = <<>>
    /\ section = <<>>
    /\ calls = <<>>
    /\ last = NoEvent
    /\ nread = 0

\* a Test after construction from the list ws, no key fed yet
InitWith(ws) ==
    LET t == TestNew(ws)
    IN  /\ words = t.words
        /\ current_word = t.current_word
        /\ complete = t.complete
        /\ fed = <<>>
        /\ hist = <<>>
        /\ Detached

Init == \E ws \in WordLists(Dictionary) \cup { <<Cat>> } : InitWith(ws)

\* the variables after test.handle_key(key); fed and hist record the call and
\* the Test it was made on
Handled(key) ==
    LET t == handle_key(test, key)
    IN  /\ words' = t.words
        /\ current_word' = t.current_word
        /\ complete' = t.complete
        /\ fed' = Append(fed, key)
        /\ hist' = Append(hist, test)

\* one call test.handle_key(key) on a Test on its own
HandleKey(key) ==
    /\ Handled(key)
    /\ UNCHANGED sessionvars

AnyKey ==
    /\ Len(fed) < MaxKeys
    /\ \E key \in Keys : HandleKey(key)

Next == AnyKey

Spec == Init /\ [][Next]_vars

-----------------------------------------------------------------------------
(* Second specification: word lists over "cat" and "dog", typed exactly,   *)
(* word by word with a Space after each, up to MaxExtra arbitrary trailing *)
(* key events.                                                             *)

RTKeys ==
    { Char("c"), Char("a"), Char("t"), Char("d"), Char("o"), Char("g"),
      Char("x"), Space, Enter, Backspace, CtrlH, Esc }

\* the target texts of the Test, in order
Texts == [i \in 1..Len(words) |-> words[i].text]

\* the key events that type every text exactly, a Space after each
RECURSIVE ExactKeys(_)
ExactKeys(texts) ==
    IF texts = <<>>
    THEN <<>>
    ELSE [j \in 1..Len(Head(texts)) |-> Char(Head(texts)[j])]
         \o <<Space>> \o ExactKeys(Tail(texts))

\* length of the longest common prefix of two sequences
CommonPrefix(s, t) ==
    Cardinality({ n \in 1..Len(s) : n <= Len(t) /\ SubSeq(s, 1, n) = SubSeq(t, 1, n) })

InitRoundTrip == \E ws \in WordLists({Cat, Dog}) : InitWith(ws)

ScriptedKey ==
    \E key \in RTKeys :
        /\ LET next == Append(fed, key)
           IN  Len(next) - CommonPrefix(next, ExactKeys(Texts)) <= MaxExtra
        /\ HandleKey(key)

NextRoundTrip == ScriptedKey

SpecRoundTrip == InitRoundTrip /\ [][NextRoundTrip]_vars

-----------------------------------------------------------------------------
(* Third specification: the session of main.                               *)

\* ChatCompletionRequestMessage
Message(role, content) == [role |-> role, content |-> content]

\* ChatGPT::default: system_prompts, the three system prompts and the user
\* prompt that starts the story
system_prompts ==
    << Message("system", <<"DEFAULT_SYSTEM_PROMPTS[0]">>),
       Message("system", <<"DEFAULT_SYSTEM_PROMPTS[1]">>),
       Message("system", <<"DEFAULT_SYSTEM_PROMPTS[2]">>),
       Message("user", <<"Start a story">>) >>

\* the user turn gen_contents pushes after every answer
ContinueStory == Message("user", <<"Continue story.">>)

\* str::split_whitespace, collected
RECURSIVE split_whitespace(_)
split_whitespace(line) ==
    IF line = <<>> THEN <<>>
    ELSE IF Head(line) = " " THEN split_whitespace(Tail(line))
    ELSE LET stops == { n \in 1..Len(line) : line[n] = " " }
             n == IF stops = {} THEN Len(line) + 1
                  ELSE CHOOSE m \in stops : \A o \in stops : m <= o
         IN  <<SubSeq(line, 1, n - 1)>> \o split_whitespace(SubSeq(line, n, Len(line)))

\* the answers the provider may give to a text request: no word, one word,
\* two words
Contents == { <<>>, <<"a">>, <<"a", " ", "a">> }

\* the key events the loop of main may read
SessionKeys ==
    { Ctrl("c"), Esc, Char("r"), Char("q"), Ctrl("q"), Char("a"), Space }

\* a provider call as recorded in calls: the request (messages of a text
\* request, words of an image request), whether it succeeded, and the State
\* and the number of events read when it was made
Call(api, messages, ws, ok) ==
    [api |-> api, messages |-> messages, words |-> ws, ok |-> ok,
     state |-> state, nread |-> nread]

\* Results::from(test)
ResultsFrom(t) == [built |-> TRUE, from |-> t]

\* main before the first gen_contents (ChatGPT::default has run)
InitSession ==
    /\ words = <<>>
    /\ current_word = 0
    /\ complete = FALSE
    /\ fed = <<>>
    /\ hist = <<>>
    /\ pc = "gen"
    /\ state = "None"
    /\ results = NoResults
    /\ subsequent_prompts = <<>>
    /\ section = <<>>
    /\ calls = <<>>
    /\ last = NoEvent
    /\ nread = 0

\* gen_contents retrying the text request when it fails
GenContents_Retry ==
    /\ pc = "gen"
    /\ Len(SelectSeq(calls, LAMBDA c : c.api = "text")) < MaxParts
    /\ LET messages == system_prompts \o subsequent_prompts
       IN  \/ /\ calls' = Append(calls, Call("text", messages, <<>>, FALSE))
              /\ UNCHANGED <<pc, subsequent_prompts, section>>
           \/ \E line \in Contents :
                /\ calls' = Append(calls, Call("text", messages, <<>>, TRUE))
                /\ subsequent_prompts' =
                       subsequent_prompts \o <<Message("assistant", line), ContinueStory>>
                /\ section' = split_whitespace(line)
                /\ pc' = "image"
    /\ UNCHANGED <<testvars, state, results, last, nread>>

\* ChatGPT::gen_contents: one text request with system_prompts followed by
\* subsequent_prompts; a failed request panics at the unwrap; an answer is
\* pushed as an assistant turn, followed by the user turn, and its words are
\* returned
GenContents ==
    /\ pc = "gen"
    /\ Len(SelectSeq(calls, LAMBDA c : c.api = "text")) < MaxParts
    /\ LET messages == system_prompts \o subsequent_prompts
       IN  \/ /\ calls' = Append(calls, Call("text", messages, <<>>, FALSE))
              /\ pc' = "panicked"
              /\ UNCHANGED <<subsequent_prompts, section>>
           \/ \E line \in Contents :
                /\ calls' = Append(calls, Call("text", messages, <<>>, TRUE))
                /\ subsequent_prompts' =
                       subsequent_prompts \o <<Message("assistant", line), ContinueStory>>
                /\ section' = split_whitespace(line)
                /\ pc' = "image"
    /\ UNCHANGED <<testvars, state, results, last, nread>>

\* Test::new(words) as main calls it: one image request for the words; Err
\* is returned by main's `?`, Ok makes the new Test the State
TestNewCall ==
    /\ pc = "image"
    /\ \/ /\ calls' = Append(calls, Call("image", <<>>, section, FALSE))
          /\ pc' = "error"
          /\ UNCHANGED <<testvars, state>>
       \/ LET t == TestNew(section)
          IN  /\ calls' = Append(calls, Call("image", <<>>, section, TRUE))
              /\ words' = t.words
              /\ current_word' = t.current_word
              /\ complete' = t.complete
              /\ fed' = <<>>
              /\ hist' = <<>>
              /\ state' = "Test"
              /\ pc' = "loop"
    /\ UNCHANGED <<results, subsequent_prompts, section, last, nread>>

\* the patterns of the matches in the loop of main
IsCtrlC(key) == key.code = "Char" /\ key.ch = "c" /\ key.ctrl
IsEsc(key) == key.code = "Esc" /\ ~key.ctrl
IsPlain(key, c) == key.code = "Char" /\ key.ch = c /\ ~key.ctrl

\* the arm State::Test building Results after every key, complete or not
DispatchTest_AlwaysResults(key) ==
    IF words = <<>>
    THEN /\ pc' = "panicked"
         /\ UNCHANGED <<testvars, state, results>>
    ELSE /\ Handled(key)
         /\ state' = "Results"
         /\ results' = ResultsFrom(test')
         /\ pc' = "loop"

\* the arm State::Test never leaving the Test state
DispatchTest_NoSwitch(key) ==
    IF words = <<>>
    THEN /\ pc' = "panicked"
         /\ UNCHANGED <<testvars, state, results>>
    ELSE /\ Handled(key)
         /\ UNCHANGED <<state, results>>
         /\ pc' = "loop"

\* the arm State::Test of the second match: handle_key, which panics on
\* self.words[self.current_word] when the Test has no words, then Results if
\* the Test is complete
DispatchTest(key) ==
    IF words = <<>>
    THEN /\ pc' = "panicked"
         /\ UNCHANGED <<testvars, state, results>>
    ELSE /\ Handled(key)
         /\ IF complete'
            THEN state' = "Results" /\ results' = ResultsFrom(test')
            ELSE UNCHANGED <<state, results>>
         /\ pc' = "loop"

\* the arm State::Results matching 'r' and 'q' whatever the modifiers
DispatchResults_AnyModifiers(key) ==
    /\ pc' = IF key.code = "Char" /\ key.ch = "r" THEN "gen"
             ELSE IF key.code = "Char" /\ key.ch = "q" THEN "done"
             ELSE "loop"
    /\ UNCHANGED <<testvars, state, results>>

\* the arm State::Results of the second match
DispatchResults(key) ==
    /\ pc' = IF IsPlain(key, "r") THEN "gen"
             ELSE IF IsPlain(key, "q") THEN "done"
             ELSE "loop"
    /\ UNCHANGED <<testvars, state, results>>

\* one iteration of the loop of main on the key event read
ReadEvent ==
    /\ pc = "loop"
    /\ nread < MaxEvents
    /\ \E key \in SessionKeys :
         /\ nread' = nread + 1
         /\ last' = [key |-> key, state |-> state]
         /\ IF IsCtrlC(key) \/ (IsEsc(key) /\ state = "Results")
            THEN /\ pc' = "done"
                 /\ UNCHANGED <<testvars, state, results>>
            ELSE IF IsEsc(key)
            THEN /\ state' = "Results"
                 /\ results' = ResultsFrom(test)
                 /\ pc' = "loop"
                 /\ UNCHANGED testvars
            ELSE IF state = "Test"
            THEN DispatchTest(key)
            ELSE DispatchResults(key)
    /\ UNCHANGED <<subsequent_prompts, section, calls>>

NextSession == GenContents \/ TestNewCall \/ ReadEvent

SpecSession == InitSession /\ [][NextSession]_vars

-----------------------------------------------------------------------------
(* What the claims below read off a state: the last key event fed, the     *)
(* Test it was fed to, and the words before and after.                     *)

Stepped == fed # <<>>
Key == fed[Len(fed)]
Pre == hist[Len(hist)]
PreWord == Pre.words[Pre.current_word + 1]
LastIndex == Len(words) - 1

\* the correct flags of every event of every word
AllCorrect ==
    \A i \in 1..Len(words) :
        \A e \in 1..Len(words[i].events) : words[i].events[e].correct = Some(TRUE)

\* every word's progress equals its text
AllTyped == \A i \in 1..Len(words) : words[i].progress = words[i].text

\* every word other than words[i] is as it was before the last key event
OthersUnchanged(i) ==
    /\ Len(words) = Len(Pre.words)
    /\ \A j \in 1..Len(words) : j # i => words[j] = Pre.words[j]

\* words[i] got exactly one more event, with this correct flag
OneEvent(i, correct) ==
    words[i].events = Append(Pre.words[i].events, [key |-> Key, correct |-> correct])

\* the keys c,a,t,Space,d,o,g,Space
RoundTripKeys ==
    <<Char("c"), Char("a"), Char("t"), Space, Char("d"), Char("o"), Char("g"), Space>>

-----------------------------------------------------------------------------
(* C1 *)

\* C1 as stated: words ["cat","dog"] fed c,a,t,Space,d,o,g,Space end with
\* complete = true, current_word = 0, both progresses equal to the texts and
\* every event correct.
C1_RoundTripAsStated ==
    (Texts = <<Cat, Dog>> /\ fed = RoundTripKeys)
        => complete /\ current_word = 0 /\ AllTyped /\ AllCorrect

\* C1 amended: after c,a,t,Space,d,o,g the Test is complete with
\* current_word = 0; the trailing Space is then handled on word 0 and moves
\* current_word to 1, so the eight keys end with complete = true,
\* current_word = 1, both progresses equal to the texts and every event correct.
C1_RoundTrip ==
    /\ (Texts = <<Cat, Dog>> /\ fed = SubSeq(RoundTripKeys, 1, 7))
           => complete /\ current_word = 0 /\ AllTyped /\ AllCorrect
    /\ (Texts = <<Cat, Dog>> /\ fed = RoundTripKeys)
           => complete /\ current_word = 1 /\ AllTyped /\ AllCorrect

C1_Witness ==
    /\ Texts = <<Cat, Dog>>
    /\ fed = RoundTripKeys
    /\ complete
    /\ Len(words[1].events) = 5

-----------------------------------------------------------------------------
(* C2 *)

\* the last Len(text)+1 key events were the characters of the text of word i
\* (0-based) in order and then one Space, fed to a Test whose current word
\* was i with empty progress
TypedExactly(i) ==
    LET text == words[i + 1].text
        m == Len(text)
        n == Len(fed)
    IN  /\ n >= m + 1
        /\ hist[n - m].current_word = i
        /\ hist[n - m].words[i + 1].progress = <<>>
        /\ \A j \in 1..m : fed[n - m - 1 + j] = Char(text[j])
        /\ fed[n] = Space

NoWideBeforeSpace(text) ==
    \A p \in 1..Len(text) :
        text[p] = " " => \A q \in 1..(p - 1) : len_utf8(text[q]) = 1

-----------------------------------------------------------------------------
(* C3 *)

\* a character key other than Space and Control+h
Printable(key) ==
    /\ key.code = "Char"
    /\ key.ch # " "
    /\ ~(key.ch = "h" /\ key.ctrl)

\* C3: a printable-character key appends the character to the current word's
\* progress and records exactly one event on that word, correct exactly when
\* the progress after the append is a prefix of the text; words ["cat"] fed
\* c,a,x end with progress "cax" and a last event with correct = false.
C3_CharAppends ==
    /\ (Stepped /\ Printable(Key)) =>
           LET i == Pre.current_word + 1
           IN  /\ words[i].progress = Append(PreWord.progress, Key.ch)
               /\ words[i].text = PreWord.text
               /\ OneEvent(i, Some(starts_with(words[i].text, words[i].progress)))
               /\ OthersUnchanged(i)
    /\ (Texts = <<Cat>> /\ fed = <<Char("c"), Char("a"), Char("x")>>) =>
           /\ words[1].progress = <<"c", "a", "x">>
           /\ words[1].events[3].correct = Some(FALSE)
           /\ Len(words[1].events) = 3

C3_Witness ==
    /\ Texts = <<Cat>>
    /\ fed = <<Char("c"), Char("a"), Char("x")>>
    /\ words[1].progress = <<"c", "a", "x">>

-----------------------------------------------------------------------------
(* C4 *)

\* C4: Backspace on a non-empty progress removes exactly its last character,
\* leaves current_word, complete and every other word unchanged, and records
\* exactly one event on the current word, correct exactly when the progress
\* before the removal was not a prefix of the text.
C4_BackspacePops ==
    (Stepped /\ Key.code = "Backspace" /\ PreWord.progress # <<>>) =>
        LET i == Pre.current_word + 1
        IN  /\ Append(words[i].progress, PreWord.progress[Len(PreWord.progress)])
                   = PreWord.progress
            /\ words[i].text = PreWord.text
            /\ current_word = Pre.current_word
            /\ complete = Pre.complete
            /\ OthersUnchanged(i)
            /\ OneEvent(i, Some(~starts_with(PreWord.text, PreWord.progress)))

\* a Backspace removed a wrong character: the progress before was no prefix
\* of the text and the progress after is one
C4_Witness ==
    /\ Stepped
    /\ Key.code = "Backspace"
    /\ PreWord.progress # <<>>
    /\ ~starts_with(PreWord.text, PreWord.progress)
    /\ starts_with(PreWord.text, words[Pre.current_word + 1].progress)
    /\ words[Pre.current_word + 1].progress # <<>>

-----------------------------------------------------------------------------
(* C5 *)

\* C5: Backspace on an empty progress moves current_word to the previous
\* index, staying at 0 when it is 0, records no event and changes no progress.
C5_BackspaceMovesBack ==
    (Stepped /\ Key.code = "Backspace" /\ PreWord.progress = <<>>) =>
        /\ current_word = (IF Pre.current_word = 0 THEN 0 ELSE Pre.current_word - 1)
        /\ current_word >= 0
        /\ words = Pre.words
        /\ complete = Pre.complete

\* two Backspaces on empty progress in a row: the first moved from word 1 to
\* word 0, the second stayed at 0
C5_Witness ==
    /\ Len(fed) >= 2
    /\ Key.code = "Backspace"
    /\ fed[Len(fed) - 1].code = "Backspace"
    /\ hist[Len(hist) - 1].current_word = 1
    /\ hist[Len(hist) - 1].words[2].progress = <<>>
    /\ Pre.current_word = 0
    /\ PreWord.progress = <<>>
    /\ current_word = 0

-----------------------------------------------------------------------------
(* C6 *)

\* the index (0-based) the clear-word key acts on
ClearTarget ==
    IF PreWord.progress # <<>> THEN Pre.current_word
    ELSE IF Pre.current_word = 0 THEN 0
    ELSE Pre.current_word - 1

\* C6: Control+h first moves to the previous word (staying at 0) if the
\* current progress is empty, then leaves the now-current word with empty
\* progress and one more event with correct = None; no other word changes.
C6_ClearWord ==
    (Stepped /\ Key.code = "Char" /\ Key.ch = "h" /\ Key.ctrl) =>
        LET i == ClearTarget + 1
        IN  /\ current_word = ClearTarget
            /\ complete = Pre.complete
            /\ words[i].progress = <<>>
            /\ words[i].text = Pre.words[i].text
            /\ OneEvent(i, None)
            /\ OthersUnchanged(i)

\* Control+h on an empty word 1 moved back to word 0 and cleared what had
\* been typed there
C6_Witness ==
    /\ Stepped
    /\ Key = CtrlH
    /\ Pre.current_word = 1
    /\ PreWord.progress = <<>>
    /\ Pre.words[1].progress # <<>>
    /\ current_word = 0
    /\ words[1].progress = <<>>

-----------------------------------------------------------------------------
(* C7 *)

SpaceOrEnter(key) == (key.code = "Char" /\ key.ch = " ") \/ key.code = "Enter"

\* C7: Space or Enter on an empty progress, when the text is not empty and
\* does not start with a space, records no event and changes nothing.
C7_SpaceIgnored ==
    (/\ Stepped
     /\ SpaceOrEnter(Key)
     /\ PreWord.progress = <<>>
     /\ PreWord.text # <<>>
     /\ nth(PreWord.text, 0) # Some(" ")) => test = Pre

\* Enter was ignored on a word that had been typed on and erased again
C7_Witness ==
    /\ Stepped
    /\ Key = Enter
    /\ PreWord.progress = <<>>
    /\ PreWord.text # <<>>
    /\ nth(PreWord.text, 0) # Some(" ")
    /\ PreWord.events # <<>>
    /\ test = Pre

-----------------------------------------------------------------------------
(* C8 *)

\* C8: a key code that is not Space, Enter, Backspace or a character leaves
\* the whole Test unchanged.
C8_OtherKeysIgnored ==
    (Stepped /\ Key.code \notin {"Char", "Enter", "Backspace"}) => test = Pre

\* Esc was fed to a Test whose current word has progress
C8_Witness ==
    /\ Stepped
    /\ Key = Esc
    /\ PreWord.progress # <<>>
    /\ Pre.current_word > 0
    /\ test = Pre

-----------------------------------------------------------------------------
(* C9 *)

\* C9: complete starts false, and once a handle_key call has set it, it is
\* true after every further key event.
C9_CompleteMonotonic ==
    /\ fed = <<>> => ~complete
    /\ \A k \in 1..Len(hist) : hist[k].complete => complete
    /\ \A k \in 1..(Len(hist) - 1) : hist[k].complete => hist[k + 1].complete

\* a Test that was complete took a printable character and a Backspace
C9_Witness ==
    /\ Len(fed) >= 3
    /\ hist[Len(hist) - 1].complete
    /\ Printable(fed[Len(fed) - 1])
    /\ Key = Backspace
    /\ complete

-----------------------------------------------------------------------------
(* C10 *)

\* C10: 0 <= current_word < words.len() in every reachable state, and the
\* number of words never changes.
C10_IndexInRange ==
    /\ Len(words) >= 1
    /\ current_word \in 0..(Len(words) - 1)
    /\ \A k \in 1..Len(hist) :
           /\ Len(hist[k].words) = Len(words)
           /\ hist[k].current_word \in 0..(Len(words) - 1)

\* the index reached the last word by a Space and came from there to 0 by
\* completion
C10_Witness ==
    /\ Len(fed) >= 2
    /\ Len(words) >= 2
    /\ hist[Len(hist) - 1].current_word = 0
    /\ Pre.current_word = LastIndex
    /\ current_word = 0
    /\ complete
    /\ ~Pre.complete

-----------------------------------------------------------------------------
(* C11 *)

\* the Test before key event k, and after the last one for k = Len(fed) + 1
TestAt(k) == IF k <= Len(hist) THEN hist[k] ELSE test

\* by how many characters key event k changed the progress of words[i]
Delta(i, k) ==
    LET d == Len(TestAt(k + 1).words[i].progress) - Len(TestAt(k).words[i].progress)
    IN  IF d < 0 THEN -d ELSE d

ClearKey(key) == key.code = "Char" /\ key.ch = "h" /\ key.ctrl

\* characters appended to plus removed from the progress of words[i] by the
\* first k key events
RECURSIVE Churn(_, _)
Churn(i, k) == IF k = 0 THEN 0 ELSE Churn(i, k - 1) + Delta(i, k)

\* the same, with every clear-word key on words[i] counted once instead of
\* once per character it removed
RECURSIVE Strokes(_, _)
Strokes(i, k) ==
    IF k = 0 THEN 0
    ELSE Strokes(i, k - 1)
         + (IF ClearKey(fed[k])
            THEN (IF TestAt(k + 1).current_word + 1 = i THEN 1 ELSE 0)
            ELSE Delta(i, k))

\* C11 as stated: every word has at least as many events as characters were
\* ever appended to plus removed from its progress, the characters removed
\* by clear-word included.
C11_EventsCoverChurnAsStated ==
    \A i \in 1..Len(words) : Len(words[i].events) >= Churn(i, Len(fed))

\* C11 amended: every word has at least as many events as characters were
\* appended to its progress, plus characters removed from it by Backspace,
\* plus clear-word keys applied to it (a clear-word key records one event
\* however many characters it removes).
C11_EventsCoverStrokes ==
    \A i \in 1..Len(words) : Len(words[i].events) >= Strokes(i, Len(fed))

\* a clear-word key removed two characters at once and recorded one event
C11_Witness ==
    /\ Stepped
    /\ ClearKey(Key)
    /\ \E i \in 1..Len(words) :
           /\ Delta(i, Len(fed)) >= 2
           /\ Len(words[i].events) = Strokes(i, Len(fed))
           /\ Churn(i, Len(fed)) > Len(words[i].events)

-----------------------------------------------------------------------------
(* C12 *)

\* s is a prefix of t
IsPrefix(s, t) == Len(s) <= Len(t) /\ SubSeq(t, 1, Len(s)) = s

\* events of all words together
RECURSIVE TotalEvents(_)
TotalEvents(ws) ==
    IF ws = <<>> THEN 0 ELSE Len(Head(ws).events) + TotalEvents(Tail(ws))

\* the word (1-based) the last key event changed or judged: the word moved
\* to for clear-word, the current word before the key otherwise
Judged == IF ClearKey(Key) THEN ClearTarget + 1 ELSE Pre.current_word + 1

\* C12: a handle_key call leaves every word's previous events as a prefix of
\* its events, appends at most one event over all words, and appends it to
\* the word whose progress the key changed or judged.
C12_AppendOnly ==
    Stepped =>
        /\ Len(words) = Len(Pre.words)
        /\ \A i \in 1..Len(words) : IsPrefix(Pre.words[i].events, words[i].events)
        /\ TotalEvents(words) - TotalEvents(Pre.words) \in {0, 1}
        /\ \A i \in 1..Len(words) :
               words[i].events # Pre.words[i].events =>
                   /\ i = Judged
                   /\ words[i].events[Len(words[i].events)].key = Key
        /\ \A i \in 1..Len(words) :
               words[i].progress # Pre.words[i].progress =>
                   /\ i = Judged
                   /\ Len(words[i].events) = Len(Pre.words[i].events) + 1

\* clear-word on an empty word 1 appended its one event to word 0, after the
\* events word 0 already had
C12_Witness ==
    /\ Stepped
    /\ ClearKey(Key)
    /\ Pre.current_word = 1
    /\ PreWord.progress = <<>>
    /\ Pre.words[1].events # <<>>
    /\ Len(words[1].events) = Len(Pre.words[1].events) + 1
    /\ words[2].events = Pre.words[2].events

-----------------------------------------------------------------------------
(* C20 *)

\* the case of C20: Space or Enter on a non-empty progress, the character of
\* the text that handle_key reads as the next expected one (the character at
\* the byte length of the progress) not being a space
EndsWord ==
    /\ Stepped
    /\ SpaceOrEnter(Key)
    /\ PreWord.progress # <<>>
    /\ nth(PreWord.text, len(PreWord.progress)) # Some(" ")

-----------------------------------------------------------------------------
(* What the session claims read off a state. *)

TextCalls == SelectSeq(calls, LAMBDA c : c.api = "text")
ImageCalls == SelectSeq(calls, LAMBDA c : c.api = "image")
Succeeded(cs) == SelectSeq(cs, LAMBDA c : c.ok)
Terminated == pc \in {"done", "panicked", "error"}

-----------------------------------------------------------------------------
(* C13 *)

\* C13 as stated: a failed image request is followed by another image
\* request for the same words, and no image failure surfaces as an error
\* that ends the program.
C13_ImageRetriedAsStated ==
    \A j \in 1..Len(calls) :
        (calls[j].api = "image" /\ ~calls[j].ok) =>
            /\ pc # "error"
            /\ IF j = Len(calls)
               THEN pc = "image"
               ELSE calls[j + 1].api = "image" /\ calls[j + 1].words = calls[j].words

-----------------------------------------------------------------------------
(* C14 *)

\* C14: a failed text request is the last provider call of the session: the
\* program has panicked, no turn was pushed and no Test made for it, and no
\* further event is read.
C14_TextFailureFatal ==
    \A j \in 1..Len(calls) :
        (calls[j].api = "text" /\ ~calls[j].ok) =>
            /\ j = Len(calls)
            /\ pc = "panicked"
            /\ state = calls[j].state
            /\ nread = calls[j].nread
            /\ Len(subsequent_prompts) = 2 * Len(Succeeded(TextCalls))
            /\ Len(Succeeded(ImageCalls)) = Len(Succeeded(TextCalls))

\* the text request for a second exercise failed
C14_Witness ==
    /\ Len(calls) = 3
    /\ calls[3].api = "text"
    /\ ~calls[3].ok
    /\ calls[3].state = "Results"
    /\ pc = "panicked"

-----------------------------------------------------------------------------
(* C15 *)

\* C15 as stated: at most one story part is generated and not yet made a
\* Test, and every text request after the first is made while a Test is on
\* the screen (the next part is generated while the user is typing).
C15_LookAheadAsStated ==
    /\ Len(Succeeded(TextCalls)) - Len(Succeeded(ImageCalls)) <= 1
    /\ \A j \in 2..Len(TextCalls) : TextCalls[j].state = "Test"

-----------------------------------------------------------------------------
(* C16 *)

\* the last loop iteration ended the session in the way C16 allows
QuitAsStated ==
    \/ IsCtrlC(last.key)
    \/ last.state = "Results" /\ IsPlain(last.key, "q")

\* what C16 says of the State after an iteration, both as stated and amended
StateTransitions ==
    /\ (pc = "loop" /\ last = NoEvent) => state = "Test"
    /\ (pc = "loop" /\ last.state = "Test") =>
           IF IsEsc(last.key) \/ complete THEN state = "Results" ELSE state = "Test"
    /\ (pc = "loop" /\ last.state = "Results") =>
           IF IsPlain(last.key, "r") THEN state = "Test" ELSE state = "Results"
    /\ (last # NoEvent /\ pc \in {"gen", "image"}) =>
           last.state = "Results" /\ IsPlain(last.key, "r") /\ state = "Results"

\* C16 as stated: the loop starts in Test; Test -> Results on completion or
\* Escape; Results -> Test on 'r'; the session ends only on 'q' in Results
\* or on Control+c.
C16_TransitionsAsStated ==
    /\ StateTransitions
    /\ last # NoEvent => (Terminated <=> QuitAsStated)

\* C16 amended: the same transitions, and the session ends on 'q' or Escape
\* in Results, on Control+c in either state, and by an error: a failed text
\* or image request made for 'r', or a key other than Control+c and Escape
\* handled by a Test that has no words.
C16_Transitions ==
    /\ StateTransitions
    /\ last # NoEvent =>
           /\ pc = "done" <=> (QuitAsStated \/ (last.state = "Results" /\ IsEsc(last.key)))
           /\ pc = "panicked" <=>
                  \/ /\ last.state = "Test"
                     /\ words = <<>>
                     /\ ~IsCtrlC(last.key) /\ ~IsEsc(last.key)
                  \/ /\ last.state = "Results" /\ IsPlain(last.key, "r")
                     /\ calls[Len(calls)].api = "text" /\ ~calls[Len(calls)].ok
                     /\ calls[Len(calls)].nread = nread
           /\ pc = "error" <=>
                  /\ last.state = "Results" /\ IsPlain(last.key, "r")
                  /\ calls[Len(calls)].api = "image" /\ ~calls[Len(calls)].ok
                  /\ calls[Len(calls)].nread = nread

\* Escape in Results ended the session of a second exercise
C16_Witness ==
    /\ pc = "done"
    /\ last.state = "Results"
    /\ IsEsc(last.key)
    /\ Len(Succeeded(ImageCalls)) = 2

-----------------------------------------------------------------------------
(* C17 *)

\* the last loop iteration built a Results value
BuiltResults == pc = "loop" /\ last.state = "Test" /\ state = "Results"

\* C17 as stated: every Results value is built from a complete Test.
C17_ResultsFromCompleteAsStated ==
    results.built => results.from.complete

\* C17 amended: a Results value built after handle_key is built from the
\* Test, which is complete; the one built on Escape is built from the
\* current Test, whose complete flag is false.
C17_ResultsFromComplete ==
    BuiltResults =>
        /\ results.built
        /\ results.from = test
        /\ results.from.complete <=> ~IsEsc(last.key)

\* a Results value built from a two-word Test completed by its last key
C17_Witness ==
    /\ BuiltResults
    /\ ~IsEsc(last.key)
    /\ results.from.complete
    /\ Len(results.from.words) = 2
    /\ Len(fed) >= 3

-----------------------------------------------------------------------------
(* C18 *)

\* C18 as stated: every text request carries system_prompts followed by all
\* prior turns; the history grows only once the image for a text has
\* succeeded, by an assistant turn and the user turn, so it holds two turns
\* for every story part produced, assistant and user alternating.
C18_HistoryAsStated ==
    /\ \A j \in 1..Len(TextCalls) :
           TextCalls[j].messages =
               system_prompts \o SubSeq(subsequent_prompts, 1, 2 * (j - 1))
    /\ Len(subsequent_prompts) = 2 * Len(Succeeded(ImageCalls))
    /\ \A n \in 1..Len(subsequent_prompts) :
           subsequent_prompts[n].role = (IF n % 2 = 1 THEN "assistant" ELSE "user")
    /\ \A n \in 1..Len(subsequent_prompts) :
           n % 2 = 0 => subsequent_prompts[n] = ContinueStory

-----------------------------------------------------------------------------
(* C19 *)

\* C19: handle_key is only ever called on a Test that is not complete: a
\* Test enters the Test state with complete = false and current_word = 0,
\* and once a key has made it complete the State is Results before the next
\* event is read.
C19_NoKeyAfterComplete ==
    /\ \A k \in 1..Len(hist) : ~hist[k].complete
    /\ (state = "Test" /\ fed = <<>>) => (~complete /\ current_word = 0)
    /\ complete => (state = "Results" /\ results = ResultsFrom(test))
    /\ (state = "Test" /\ pc = "loop") => ~complete

\* the last key of a second exercise completed its Test and Results took over
C19_Witness ==
    /\ pc = "loop"
    /\ last.state = "Test"
    /\ ~IsEsc(last.key)
    /\ state = "Results"
    /\ complete
    /\ hist # <<>>
    /\ Len(Succeeded(ImageCalls)) = 2

====
